---- MODULE Spec2Model ----
(***************************************************************************)
(* Client-side dual-WebSocket session protocol of Nexus.                   *)
(*                                                                         *)
(*   TerminalSession   frontend/src/lib/Terminal.svelte, first <script>    *)
(*   AssistantSession  frontend/src/lib/Terminal.svelte, second <script>   *)
(*                     (the AI chat component)                             *)
(*   Coordinator       the page component embedded in scripts/start.sh     *)
(*                                                                         *)
(* A JavaScript string is a sequence of one-character strings, so that     *)
(* trim(), += and the truthiness of "" are computed, not assumed.          *)
(* Every handler of the source is one action.  All handlers of a           *)
(* component close over the component's variables (ws, isConnected, ...),  *)
(* not over the socket they were registered on, so the socket an event     *)
(* belongs to (the parameter i) and the socket the handler acts on (ws)    *)
(* are kept apart.                                                         *)
(***************************************************************************)
EXTENDS Integers, Sequences, FiniteSets, TLC

\* ------------------------------------------------------------------ bounds
MaxChans == 2        \* sockets the Terminal component may create
MaxLog == 2          \* entries of the chat's messages list
MaxBuf == 2          \* characters of a streamed reply
MaxCmds == 2         \* entries of detectedCommands
MaxLoad == 3         \* entries and characters an instance of the chat holds
                     \* at once in messages, currentAssistantMessage and
                     \* detectedCommands together

\* --------------------------------------------------------------- constants
Null == "null"
NoSocket == 0
DefaultPort == 22
DefaultPassword == <<>>

SessionIds == {"s1", "s2"}
AiSessionIds == {"a1"}
\* values of the (host, username) inputs a user may have typed
FormValues == {<< <<>>, <<>> >>,
               << <<" ">>, <<"u">> >>,
               << <<"h">>, <<" ">> >>,
               << <<" ", "h">>, <<"u", " ">> >>}
KeyNames == {"Enter", "a"}
\* what the user may have typed into the chat input
InputTexts == {<<>>, <<" ">>, <<"q", " ">>}
\* contents of message_chunk
ChunkTexts == {<<"a">>, <<"b">>}
\* full_message of message_complete: absent, empty or a text
FullMessages == {[present |-> FALSE, text |-> <<>>],
                 [present |-> TRUE, text |-> <<>>],
                 [present |-> TRUE, text |-> <<"F">>]}
SafetyLevels == {"safe", "caution", "dangerous"}
CommandTexts == {<<"d", "f">>}
ServerErrors == {"boom"}
ConnectionErrorText == "Connection error. Please check if Ollama is running."
NoTerminalText == "Terminal not connected. Cannot execute command."
AiConnectFailedText == "Failed to connect to AI service"

\* window.location of the page.  Both components connect to
\* `ws://${window.location.host}/...`.  On a page served over HTTPS that URL
\* is mixed content and the WebSocket constructor throws SecurityError,
\* unless the host is a loopback host, which the browser trusts.
Protocols == {"http:", "https:"}
Hostnames == {"nexus.test", "localhost", "127.0.0.1"}
Ports == {"", "3000"}
LoopbackHosts == {"localhost", "127.0.0.1"}
Locations == [protocol : Protocols, hostname : Hostnames, port : Ports]
MixedContent(location) ==
    location.protocol = "https:" /\ location.hostname \notin LoopbackHosts

\* the two components of the page, also the names of their channels
Panels == {"terminal", "chat"}

\* ------------------------------------------------------------------ state
VARIABLES
    panel,             \* the component whose events the behaviour contains
    \* Terminal component
    ws,                \* index into socks, NoSocket for null
    sessionId,
    isConnected,
    isConnecting,
    host,
    username,
    statusIndicator,
    mounted,           \* Terminal component not yet destroyed
    socks,             \* the WebSocket objects created by connect()
    \* AI chat component
    aiWs,
    aiSessionId,
    aiIsConnected,
    messages,
    isProcessing,
    currentAssistantMessage,
    detectedCommands,
    errorMessage,
    aiMounted,         \* "no", "yes", "destroyed"
    aiSocks,           \* the WebSocket objects created by connectToAI()
    \* page component
    terminalSessionId,
    wsBlocked,         \* whether ws://${window.location.host} is mixed
                       \* content for the page, fixed for the page's life
    \* observation of the run
    last,              \* the handler that ran last: its input and its output
    turn               \* chunks received since the last accepted sendMessage,
                       \* and how many of them an error has discarded

termVars == <<ws, sessionId, isConnected, isConnecting, host,
              username, statusIndicator, mounted, socks>>
aiVars == <<aiWs, aiSessionId, aiIsConnected, messages, isProcessing,
            currentAssistantMessage, detectedCommands, errorMessage,
            aiMounted, aiSocks, turn>>
pageVars == <<panel, terminalSessionId, wsBlocked>>
vars == <<termVars, aiVars, pageVars, last>>

\* ---------------------------------------------------------------- strings
RECURSIVE TrimStart(_)
TrimStart(s) ==
    IF s # <<>> /\ Head(s) = " " THEN TrimStart(Tail(s)) ELSE s

RECURSIVE TrimEnd(_)
TrimEnd(s) ==
    IF s # <<>> /\ s[Len(s)] = " " THEN TrimEnd(SubSeq(s, 1, Len(s) - 1)) ELSE s

trim(s) == TrimEnd(TrimStart(s))

\* ---------------------------------------------------------------- sockets
\* `new WebSocket(wsUrl)` throws when the ws:// URL is mixed content.
ConstructorThrows == wsBlocked

\* A socket as `new WebSocket(url)` returns it.  Besides its readyState the
\* record remembers what has happened on it: closeFired (its close event was
\* delivered), closeCalled (close() was called on it) and acknowledged (a
\* connected or reconnected message arrived on it).
NewSocket ==
    [readyState |-> "CONNECTING", closeFired |-> FALSE, closeCalled |-> FALSE,
     acknowledged |-> FALSE]

\* WebSocket.send throws on a CONNECTING socket, transmits on an OPEN one and
\* silently discards on a CLOSING or CLOSED one.
SendThrows(ss, i) == ss[i].readyState = "CONNECTING"

\* The frames a send(frame) on socket i of channel c puts on the wire.
Transmit(ss, c, i, frame) ==
    IF ss[i].readyState = "OPEN"
    THEN << [chan |-> c, sock |-> i, frame |-> frame] >>
    ELSE << >>

\* WebSocket.close: an OPEN or CONNECTING socket starts closing.
CloseOn(ss, i) ==
    IF ss[i].readyState \in {"CONNECTING", "OPEN"}
    THEN [ss EXCEPT ![i].readyState = "CLOSING", ![i].closeCalled = TRUE]
    ELSE [ss EXCEPT ![i].closeCalled = TRUE]

NoArg == [none |-> TRUE]

\* What is recorded of a handler run: the handler, the socket whose event it
\* handled, its input and the frames it transmitted.
Ran(name, i, arg, frames) ==
    last' = [op |-> name, sock |-> i, arg |-> arg, sent |-> frames]

\* ------------------------------------------------------------------ Init
Init ==
    /\ panel \in Panels
    /\ ws = NoSocket
    /\ sessionId = Null
    /\ isConnected = FALSE
    /\ isConnecting = FALSE
    /\ host = <<>>
    /\ username = <<>>
    /\ statusIndicator = "disconnected"
    /\ mounted = TRUE
    /\ socks = <<>>
    /\ aiWs = NoSocket
    /\ aiSessionId = Null
    /\ aiIsConnected = FALSE
    /\ messages = <<>>
    /\ isProcessing = FALSE
    /\ currentAssistantMessage = <<>>
    /\ detectedCommands = <<>>
    /\ errorMessage = Null
    /\ aiMounted = "no"
    /\ aiSocks = <<>>
    /\ terminalSessionId = Null
    /\ \E location \in Locations : wsBlocked = MixedContent(location)
    /\ last = [op |-> "init", sock |-> NoSocket, arg |-> NoArg, sent |-> <<>>]
    /\ turn = [open |-> FALSE, chunks |-> <<>>, error |-> FALSE, lost |-> 0]

\* ============================================================== Terminal
updateStatus(status) == statusIndicator' = status

\* bind:value on the host and username inputs, disabled while isConnecting.
editForm ==
    /\ panel = "terminal"
    /\ mounted /\ ~isConnecting
    /\ \E f \in FormValues :
          /\ host' = f[1]
          /\ username' = f[2]
    /\ Ran("editForm", NoSocket, NoArg, <<>>)
    /\ UNCHANGED <<ws, sessionId, isConnected, isConnecting,
                   statusIndicator, mounted, socks>>
    /\ UNCHANGED <<aiVars, pageVars>>

\* A guard that looks at the socket only: what C4 must tell from MayTransmit.
MayTransmitOnOpenSocket == ws # NoSocket /\ socks[ws].readyState = "OPEN"

\* The guard of terminal.onData and of terminal.onResize.
MayTransmit == ws # NoSocket /\ socks[ws].readyState = "OPEN" /\ isConnected

\* terminal.onData and terminal.onResize, subscribed by initTerminal at
\* mount: the frame is sent on ws.
userFrame(kind) ==
    /\ panel = "terminal"
    /\ mounted
    /\ Ran(kind, NoSocket, NoArg,
           IF MayTransmit
           THEN Transmit(socks, "terminal", ws, [type |-> kind])
           ELSE <<>>)
    /\ UNCHANGED termVars
    /\ UNCHANGED <<aiVars, pageVars>>

onData == userFrame("input")

onResize == userFrame("resize")

\* A validation of the host only: what C5 must tell from FormInvalid.
FormInvalidHostOnly == trim(host) = <<>>

\* The validation at the head of connect().
FormInvalid == trim(host) = <<>> \/ trim(username) = <<>>

\* The body of connect().
connectBody ==
    IF FormInvalid
    THEN /\ Ran("connect", NoSocket, [result |-> "invalid"], <<>>)
         /\ UNCHANGED <<ws, isConnecting, statusIndicator, socks>>
    ELSE IF isConnecting
    THEN /\ Ran("connect", NoSocket, [result |-> "busy"], <<>>)
         /\ UNCHANGED <<ws, isConnecting, statusIndicator, socks>>
    ELSE IF ConstructorThrows
    THEN \* isConnecting = true, status 'connecting', then the catch branch:
         \* the assignment to ws never happens
         /\ isConnecting' = FALSE
         /\ updateStatus("error")
         /\ Ran("connect", NoSocket, [result |-> "constructor-threw"], <<>>)
         /\ UNCHANGED <<ws, socks>>
    ELSE /\ Len(socks) < MaxChans
         /\ isConnecting' = TRUE
         /\ updateStatus("connecting")
         /\ socks' = Append(socks, NewSocket)
         /\ ws' = Len(socks) + 1
         /\ Ran("connect", NoSocket, [result |-> "opened"], <<>>)

\* The Connect button, rendered while the session is not connected.
connect ==
    /\ panel = "terminal"
    /\ mounted /\ ~isConnected
    /\ connectBody
    /\ UNCHANGED <<sessionId, isConnected, host, username, mounted>>
    /\ UNCHANGED <<aiVars, pageVars>>

\* on:keypress of the four form inputs.
handleKeyPress ==
    /\ panel = "terminal"
    /\ mounted
    /\ \E key \in KeyNames :
          IF key = "Enter" /\ ~isConnecting
          THEN connectBody
          ELSE /\ Ran("keypress", NoSocket, NoArg, <<>>)
               /\ UNCHANGED <<ws, isConnecting, statusIndicator, socks>>
    /\ UNCHANGED <<sessionId, isConnected, host, username, mounted>>
    /\ UNCHANGED <<aiVars, pageVars>>

\* The body of disconnect().
disconnectBody ==
    /\ IF ws # NoSocket
       THEN /\ socks' = CloseOn(socks, ws)
            /\ ws' = NoSocket
       ELSE UNCHANGED <<socks, ws>>
    /\ isConnected' = FALSE
    /\ sessionId' = Null
    /\ updateStatus("disconnected")

\* The Disconnect button, rendered while the session is connected.
disconnect ==
    /\ panel = "terminal"
    /\ mounted /\ isConnected
    /\ disconnectBody
    /\ Ran("disconnect", NoSocket, NoArg, <<>>)
    /\ UNCHANGED <<isConnecting, host, username, mounted>>
    /\ UNCHANGED <<aiVars, pageVars>>

onDestroy ==
    /\ panel = "terminal"
    /\ mounted
    /\ mounted' = FALSE
    /\ disconnectBody
    /\ Ran("onDestroy", NoSocket, NoArg, <<>>)
    /\ UNCHANGED <<isConnecting, host, username>>
    /\ UNCHANGED <<aiVars, pageVars>>

ConnectFrame ==
    [type |-> "connect", host |-> trim(host), port |-> DefaultPort,
     username |-> trim(username), password |-> DefaultPassword]

\* ws.onopen of socket i.  The handshake is sent on ws, whichever socket
\* that is by now; send() on a socket that is still CONNECTING throws and
\* ends the handler.
\* An onopen that gives up the connection attempt as soon as the socket opens.
wsOnOpenSettling(i) ==
    /\ panel = "terminal"
    /\ socks[i].readyState = "CONNECTING"
    /\ socks' = [socks EXCEPT ![i].readyState = "OPEN"]
    /\ Ran("onopen", i, NoArg,
           IF ws # NoSocket /\ ~SendThrows(socks', ws)
           THEN Transmit(socks', "terminal", ws, ConnectFrame)
           ELSE <<>>)
    /\ isConnecting' = FALSE
    /\ UNCHANGED <<ws, sessionId, isConnected, host,
                   username, statusIndicator, mounted>>
    /\ UNCHANGED <<aiVars, pageVars>>

\* An onopen that, after the handshake, sends what the user typed just before
\* while no channel would take it: a frame kept for a later channel.
wsOnOpenFlushing(i) ==
    /\ panel = "terminal"
    /\ socks[i].readyState = "CONNECTING"
    /\ socks' = [socks EXCEPT ![i].readyState = "OPEN"]
    /\ Ran("onopen", i, NoArg,
           IF ws # NoSocket /\ ~SendThrows(socks', ws)
           THEN Transmit(socks', "terminal", ws, ConnectFrame)
                \o (IF last.op \in {"input", "resize"} /\ last.sent = <<>>
                    THEN Transmit(socks', "terminal", ws, [type |-> last.op])
                    ELSE <<>>)
           ELSE <<>>)
    /\ UNCHANGED <<ws, sessionId, isConnected, isConnecting, host,
                   username, statusIndicator, mounted>>
    /\ UNCHANGED <<aiVars, pageVars>>

wsOnOpen(i) ==
    /\ panel = "terminal"
    /\ socks[i].readyState = "CONNECTING"
    /\ socks' = [socks EXCEPT ![i].readyState = "OPEN"]
    /\ Ran("onopen", i, NoArg,
           IF ws # NoSocket /\ ~SendThrows(socks', ws)
           THEN Transmit(socks', "terminal", ws, ConnectFrame)
           ELSE <<>>)
    /\ UNCHANGED <<ws, sessionId, isConnected, isConnecting, host,
                   username, statusIndicator, mounted>>
    /\ UNCHANGED <<aiVars, pageVars>>

TermMessageTypes == {"connected", "output", "error", "reconnected",
                     "keepalive", "pong", "notice"}

\* The reply to a keepalive: a pong on ws, if ws is open.
TermPong ==
    IF ws # NoSocket /\ socks[ws].readyState = "OPEN"
    THEN Transmit(socks, "terminal", ws, [type |-> "pong"])
    ELSE <<>>

\* ws.onmessage of socket i.
wsOnMessage(i, type, sid) ==
    /\ panel = "terminal"
    /\ socks[i].readyState = "OPEN"
    /\ Ran(type, i,
           IF type \in {"connected", "reconnected"}
           THEN [session_id |-> sid] ELSE NoArg,
           IF type = "keepalive" THEN TermPong ELSE <<>>)
    /\ CASE type = "connected" ->
              /\ sessionId' = sid
              /\ isConnected' = TRUE
              /\ isConnecting' = FALSE
              /\ updateStatus("connected")
         [] type = "error" ->
              /\ updateStatus("error")
              /\ isConnecting' = FALSE
              /\ UNCHANGED <<sessionId, isConnected>>
         [] type = "reconnected" ->
              /\ sessionId' = sid
              /\ isConnected' = TRUE
              /\ updateStatus("connected")
              /\ UNCHANGED isConnecting
         [] OTHER ->
              UNCHANGED <<sessionId, isConnected, isConnecting,
                          statusIndicator>>
    /\ socks' = IF type \in {"connected", "reconnected"}
                THEN [socks EXCEPT ![i].acknowledged = TRUE]
                ELSE socks
    /\ UNCHANGED <<ws, host, username, mounted>>
    /\ UNCHANGED <<aiVars, pageVars>>

wsOnMessageAny ==
    \E i \in 1..Len(socks), type \in TermMessageTypes :
        \E sid \in (IF type \in {"connected", "reconnected"}
                    THEN SessionIds ELSE {Null}) :
            wsOnMessage(i, type, sid)

\* The closing handshake of socket i has started at the server's request.
wsClosing(i) ==
    /\ panel = "terminal"
    /\ socks[i].readyState = "OPEN"
    /\ socks' = [socks EXCEPT ![i].readyState = "CLOSING"]
    /\ Ran("closing", i, NoArg, <<>>)
    /\ UNCHANGED <<ws, sessionId, isConnected, isConnecting, host,
                   username, statusIndicator, mounted>>
    /\ UNCHANGED <<aiVars, pageVars>>

\* The connection of socket i has failed.  The browser closes the socket and
\* fires error and then close in one task, so ws.onerror and ws.onclose run
\* back to back: onerror sets the status to 'error' and resets isConnecting,
\* onclose sets the status to 'disconnected' if isConnected and resets
\* isConnected, isConnecting and ws.
wsOnError(i) ==
    /\ panel = "terminal"
    /\ ~socks[i].closeFired
    /\ socks' = [socks EXCEPT ![i].readyState = "CLOSED",
                              ![i].closeFired = TRUE]
    /\ updateStatus(IF isConnected THEN "disconnected" ELSE "error")
    /\ isConnected' = FALSE
    /\ isConnecting' = FALSE
    /\ ws' = NoSocket
    /\ Ran("onerror", i, NoArg, <<>>)
    /\ UNCHANGED <<sessionId, host, username, mounted>>
    /\ UNCHANGED <<aiVars, pageVars>>

\* A close handler that connects again: what C20 must tell from wsOnClose.
wsOnCloseReconnecting(i) ==
    /\ panel = "terminal"
    /\ ~socks[i].closeFired
    /\ socks[i].readyState # "CONNECTING"
    /\ Len(socks) < MaxChans
    /\ socks' = Append([socks EXCEPT ![i].readyState = "CLOSED",
                                     ![i].closeFired = TRUE], NewSocket)
    /\ updateStatus("connecting")
    /\ isConnected' = FALSE
    /\ isConnecting' = TRUE
    /\ ws' = Len(socks) + 1
    /\ Ran("onclose", i, NoArg, <<>>)
    /\ UNCHANGED <<sessionId, host, username, mounted>>
    /\ UNCHANGED <<aiVars, pageVars>>

\* A close handler that leaves the status indicator alone.
wsOnCloseKeepingStatus(i) ==
    /\ panel = "terminal"
    /\ ~socks[i].closeFired
    /\ socks[i].readyState # "CONNECTING"
    /\ socks' = [socks EXCEPT ![i].readyState = "CLOSED",
                              ![i].closeFired = TRUE]
    /\ isConnected' = FALSE
    /\ isConnecting' = FALSE
    /\ ws' = NoSocket
    /\ Ran("onclose", i, NoArg, <<>>)
    /\ UNCHANGED <<statusIndicator, sessionId, host, username, mounted>>
    /\ UNCHANGED <<aiVars, pageVars>>

\* ws.onclose of socket i, closed without a failure: the socket had opened,
\* or close() was called on it while it was connecting (a connection that
\* fails to open fires error first, which is wsOnError).
wsOnClose(i) ==
    /\ panel = "terminal"
    /\ ~socks[i].closeFired
    /\ socks[i].readyState # "CONNECTING"
    /\ socks' = [socks EXCEPT ![i].readyState = "CLOSED",
                              ![i].closeFired = TRUE]
    /\ IF isConnected THEN updateStatus("disconnected")
                      ELSE UNCHANGED statusIndicator
    /\ isConnected' = FALSE
    /\ isConnecting' = FALSE
    /\ ws' = NoSocket
    /\ Ran("onclose", i, NoArg, <<>>)
    /\ UNCHANGED <<sessionId, host, username, mounted>>
    /\ UNCHANGED <<aiVars, pageVars>>

\* ======================================================== AI chat (AIChat)
\* JavaScript truthiness of a string and of an optional string.
Truthy(str) == str # <<>>

TruthyFull(full) == full.present /\ full.text # <<>>

\* A handshake that carries a session id of its own instead of the prop.
AiConnectFrameStale == [type |-> "connect", terminal_session_id |-> "s1"]

\* Every instance of the chat has variables of its own, and the handlers of
\* a socket are closures over the variables of the instance that made it.
\* An instance makes one socket, so the socket of the instance the model
\* follows is the last of aiSocks; the handlers of an earlier socket change
\* nothing of it.  disconnect() of the earlier instance has closed that
\* socket, so the only event left for it is its close.
OwnSocket(i) == i = Len(aiSocks)

\* What the chat holds, for the bound MaxLoad.
Load == Len(messages) + Len(currentAssistantMessage) + Len(detectedCommands)

AiConnectFrame == [type |-> "connect", terminal_session_id |-> terminalSessionId]

\* onMount: connectToAI().
\* toggleAiChat of the page shows the chat: `{#if showAiChat}` builds a new
\* instance of the component, whose state starts from its initial values and
\* whose onMount runs connectToAI().  The sockets of earlier instances stay
\* in aiSocks.
connectToAI ==
    /\ panel = "chat"
    /\ aiMounted \in {"no", "destroyed"}
    /\ aiMounted' = "yes"
    /\ aiSessionId' = Null
    /\ aiIsConnected' = FALSE
    /\ messages' = <<>>
    /\ isProcessing' = FALSE
    /\ currentAssistantMessage' = <<>>
    /\ detectedCommands' = <<>>
    /\ turn' = [open |-> FALSE, chunks |-> <<>>, error |-> FALSE, lost |-> 0]
    /\ IF ConstructorThrows
       THEN \* the catch branch: ws is never assigned
            /\ errorMessage' = AiConnectFailedText
            /\ aiWs' = NoSocket
            /\ UNCHANGED aiSocks
       ELSE /\ Len(aiSocks) < MaxChans
            /\ aiSocks' = Append(aiSocks, NewSocket)
            /\ aiWs' = Len(aiSocks) + 1
            /\ errorMessage' = Null
    /\ Ran("connectToAI", NoSocket, NoArg, <<>>)
    /\ UNCHANGED <<termVars, pageVars>>

\* ws.onopen of the chat socket i.
aiOnOpen(i) ==
    /\ panel = "chat"
    /\ aiSocks[i].readyState = "CONNECTING"
    /\ aiSocks' = [aiSocks EXCEPT ![i].readyState = "OPEN"]
    /\ Ran("onopen", i, NoArg,
           IF aiWs # NoSocket /\ ~SendThrows(aiSocks', aiWs)
           THEN Transmit(aiSocks', "chat", aiWs, AiConnectFrame)
           ELSE <<>>)
    /\ UNCHANGED <<aiWs, aiSessionId, aiIsConnected, messages, isProcessing,
                   currentAssistantMessage, detectedCommands, errorMessage,
                   aiMounted, turn>>
    /\ UNCHANGED <<termVars, pageVars>>

\* The reply to a keepalive: a pong on ws, if ws is open.
AiPong ==
    IF aiWs # NoSocket /\ aiSocks[aiWs].readyState = "OPEN"
    THEN Transmit(aiSocks, "chat", aiWs, [type |-> "pong"])
    ELSE <<>>

\* case 'connected'
\* A push that puts the new entry in front.
pushInFront(log, entry) == <<entry>> \o log

\* messages.push(entry)
push(log, entry) == Append(log, entry)

aiConnected(i, sid) ==
    /\ aiSessionId' = sid
    /\ aiIsConnected' = TRUE
    /\ errorMessage' = Null
    /\ Ran("connected", i, NoArg, <<>>)
    /\ UNCHANGED <<messages, isProcessing, currentAssistantMessage,
                   detectedCommands, turn>>

\* A buffer that grows at the front: what C1 must tell from Accumulate.
AccumulateInFront(buffer, content) == content \o buffer

\* What message_chunk makes of the streaming buffer.
Accumulate(buffer, content) == buffer \o content

\* case 'message_chunk'
aiMessageChunk(i, content) ==
    /\ Len(currentAssistantMessage) + Len(content) <= MaxBuf
    /\ Load + Len(content) <= MaxLoad
    /\ Len(turn.chunks) + Len(content) <= MaxBuf
    /\ currentAssistantMessage' = Accumulate(currentAssistantMessage, content)
    /\ turn' = IF turn.open
               THEN [turn EXCEPT !.chunks = @ \o content]
               ELSE turn
    /\ Ran("message_chunk", i, NoArg, <<>>)
    /\ UNCHANGED <<aiSessionId, aiIsConnected, messages, isProcessing,
                   detectedCommands, errorMessage>>

\* The content message_complete gives the assistant entry.
FinalContent(full, buffer) == IF TruthyFull(full) THEN full.text ELSE buffer

\* case 'message_complete'
aiMessageComplete(i, full) ==
    /\ IF Truthy(currentAssistantMessage) \/ TruthyFull(full)
       THEN /\ Len(messages) < MaxLog
            /\ Load - Len(currentAssistantMessage) + 1 <= MaxLoad
            /\ messages' = push(messages,
                   [role |-> "assistant",
                    content |-> FinalContent(full, currentAssistantMessage)])
            /\ currentAssistantMessage' = <<>>
            /\ isProcessing' = FALSE
       ELSE UNCHANGED <<messages, currentAssistantMessage, isProcessing>>
    /\ turn' = [open |-> FALSE, chunks |-> <<>>, error |-> FALSE, lost |-> 0]
    /\ Ran("message_complete", i,
           [full |-> full, turn |-> turn,
            appended |-> Truthy(currentAssistantMessage) \/ TruthyFull(full)],
           <<>>)
    /\ UNCHANGED <<aiSessionId, aiIsConnected, detectedCommands, errorMessage>>

\* A detection that is put in front of the others: what C17 must tell from
\* aiCommandDetected.
aiCommandDetectedInFront(i, command, level) ==
    /\ Len(detectedCommands) < MaxCmds
    /\ Load + 1 <= MaxLoad
    /\ detectedCommands' =
           <<[command |-> command, safety_level |-> level]>> \o detectedCommands
    /\ Ran("command_detected", i, [command |-> command, level |-> level], <<>>)
    /\ UNCHANGED <<aiSessionId, aiIsConnected, messages, isProcessing,
                   currentAssistantMessage, errorMessage, turn>>

\* case 'command_detected'
aiCommandDetected(i, command, level) ==
    /\ Len(detectedCommands) < MaxCmds
    /\ Load + 1 <= MaxLoad
    /\ detectedCommands' = Append(detectedCommands,
                              [command |-> command, safety_level |-> level])
    /\ Ran("command_detected", i, [command |-> command, level |-> level], <<>>)
    /\ UNCHANGED <<aiSessionId, aiIsConnected, messages, isProcessing,
                   currentAssistantMessage, errorMessage, turn>>

\* An error that keeps the streamed text: what C13 must tell from
\* aiServerError.
aiServerErrorKeepingBuffer(i, text) ==
    /\ errorMessage' = text
    /\ isProcessing' = FALSE
    /\ turn' = IF turn.open
               THEN [turn EXCEPT !.error = TRUE, !.lost = Len(turn.chunks)]
               ELSE turn
    /\ Ran("error", i, [text |-> text], <<>>)
    /\ UNCHANGED <<aiSessionId, aiIsConnected, messages, detectedCommands,
                   currentAssistantMessage>>

\* case 'error'
aiServerError(i, text) ==
    /\ errorMessage' = text
    /\ isProcessing' = FALSE
    /\ currentAssistantMessage' = <<>>
    /\ turn' = IF turn.open
               THEN [turn EXCEPT !.error = TRUE, !.lost = Len(turn.chunks)]
               ELSE turn
    /\ Ran("error", i, [text |-> text], <<>>)
    /\ UNCHANGED <<aiSessionId, aiIsConnected, messages, detectedCommands>>

\* case 'keepalive', case 'pong' and every other type
\* A handler that answers every message it has no case for with a pong.
aiOtherMessageAnswering(i, type) ==
    /\ Ran(type, i, NoArg, IF type # "pong" THEN AiPong ELSE <<>>)
    /\ UNCHANGED <<aiSessionId, aiIsConnected, messages, isProcessing,
                   currentAssistantMessage, detectedCommands, errorMessage,
                   turn>>

aiOtherMessage(i, type) ==
    /\ Ran(type, i, NoArg, IF type = "keepalive" THEN AiPong ELSE <<>>)
    /\ UNCHANGED <<aiSessionId, aiIsConnected, messages, isProcessing,
                   currentAssistantMessage, detectedCommands, errorMessage,
                   turn>>

\* ws.onmessage of the chat socket i: handleWSMessage.
handleWSMessage(i) ==
    /\ panel = "chat"
    /\ aiSocks[i].readyState = "OPEN"
    /\ \/ \E sid \in AiSessionIds : aiConnected(i, sid)
       \/ \E content \in ChunkTexts : aiMessageChunk(i, content)
       \/ \E full \in FullMessages : aiMessageComplete(i, full)
       \/ \E command \in CommandTexts, level \in SafetyLevels :
             aiCommandDetected(i, command, level)
       \/ \E text \in ServerErrors : aiServerError(i, text)
       \/ \E type \in {"keepalive", "pong", "notice"} : aiOtherMessage(i, type)
    /\ UNCHANGED <<aiWs, aiMounted, aiSocks>>
    /\ UNCHANGED <<termVars, pageVars>>

\* A guard without the isProcessing test: what C14 must tell from
\* SendRejected.
SendRejectedUnlessIdle(text) == ~Truthy(trim(text)) \/ ~aiIsConnected

\* A guard without the isConnected test: what C9 must tell from SendRejected.
SendRejectedUnlessOpen(text) == ~Truthy(trim(text)) \/ isProcessing

\* The guard at the head of sendMessage().
SendRejected(text) == ~Truthy(trim(text)) \/ ~aiIsConnected \/ isProcessing

\* A new turn that does not raise the processing flag.
startTurnNotProcessing ==
    /\ UNCHANGED isProcessing
    /\ currentAssistantMessage' = <<>>
    /\ detectedCommands' = <<>>
    /\ errorMessage' = Null

\* The assignments of sendMessage() that follow the ws.send.
startTurn ==
    /\ isProcessing' = TRUE
    /\ currentAssistantMessage' = <<>>
    /\ detectedCommands' = <<>>
    /\ errorMessage' = Null

\* sendMessage(), with the text the input field holds.
sendMessage ==
    /\ panel = "chat"
    /\ aiMounted = "yes"
    /\ \E text \in InputTexts :
          IF SendRejected(text)
          THEN /\ Ran("sendMessage", NoSocket,
                      [text |-> text, accepted |-> FALSE,
                       commands |-> Len(detectedCommands)], <<>>)
               /\ UNCHANGED <<messages, isProcessing, currentAssistantMessage,
                              detectedCommands, errorMessage, turn>>
          ELSE /\ Len(messages) < MaxLog
               /\ messages' = push(messages,
                                  [role |-> "user", content |-> text])
               /\ turn' = [open |-> TRUE, chunks |-> <<>>, error |-> FALSE, lost |-> 0]
               /\ IF aiWs # NoSocket /\ aiSocks[aiWs].readyState = "OPEN"
                  THEN /\ Ran("sendMessage", NoSocket,
                              [text |-> text, accepted |-> TRUE,
                               commands |-> Len(detectedCommands)],
                              Transmit(aiSocks, "chat", aiWs,
                                  [type |-> "message", content |-> text,
                                   include_context |-> TRUE]))
                       /\ startTurn
                  ELSE \* nothing is emptied: the entry adds to what the
                       \* chat holds
                       /\ Load + 1 <= MaxLoad
                       /\ Ran("sendMessage", NoSocket,
                              [text |-> text, accepted |-> TRUE,
                               commands |-> Len(detectedCommands)], <<>>)
                       /\ UNCHANGED <<isProcessing, currentAssistantMessage,
                                      detectedCommands, errorMessage>>
    /\ UNCHANGED <<aiWs, aiSessionId, aiIsConnected, aiMounted, aiSocks>>
    /\ UNCHANGED <<termVars, pageVars>>

\* A clear that keeps the error banner: what C11 must tell from Cleared.
ClearedButError(st) == [st EXCEPT !.messages = <<>>, !.detectedCommands = <<>>]

\* What clearChat() makes of the three fields it assigns.
Cleared(st) == [messages |-> <<>>, detectedCommands |-> <<>>, errorMessage |-> Null]

\* The Clear button.  What is recorded is what there was to clear.
\* A clearChat that also abandons the turn in progress.
clearChatResetting ==
    /\ panel = "chat"
    /\ aiMounted = "yes"
    /\ messages' = <<>>
    /\ detectedCommands' = <<>>
    /\ errorMessage' = Null
    /\ isProcessing' = FALSE
    /\ currentAssistantMessage' = <<>>
    /\ Ran("clearChat", NoSocket,
           [entries |-> Len(messages), commands |-> Len(detectedCommands),
            hadError |-> errorMessage # Null], <<>>)
    /\ UNCHANGED <<aiWs, aiSessionId, aiIsConnected, aiMounted, aiSocks, turn>>
    /\ UNCHANGED <<termVars, pageVars>>

clearChat ==
    /\ panel = "chat"
    /\ aiMounted = "yes"
    /\ LET st == Cleared([messages |-> messages,
                          detectedCommands |-> detectedCommands,
                          errorMessage |-> errorMessage])
       IN /\ messages' = st.messages
          /\ detectedCommands' = st.detectedCommands
          /\ errorMessage' = st.errorMessage
    /\ Ran("clearChat", NoSocket,
           [entries |-> Len(messages), commands |-> Len(detectedCommands),
            hadError |-> errorMessage # Null], <<>>)
    /\ UNCHANGED <<aiWs, aiSessionId, aiIsConnected, isProcessing,
                   currentAssistantMessage, aiMounted, aiSocks, turn>>
    /\ UNCHANGED <<termVars, pageVars>>

\* The close button of the error banner.
dismissError ==
    /\ panel = "chat"
    /\ aiMounted = "yes" /\ errorMessage # Null
    /\ errorMessage' = Null
    /\ Ran("dismissError", NoSocket, NoArg, <<>>)
    /\ UNCHANGED <<aiWs, aiSessionId, aiIsConnected, messages, isProcessing,
                   currentAssistantMessage, detectedCommands, aiMounted,
                   aiSocks, turn>>
    /\ UNCHANGED <<termVars, pageVars>>

\* Asking for dangerous commands only: what C2 must tell from NeedsConfirm.
NeedsConfirmDangerousOnly(level) == level = "dangerous"

\* Whether executeCommand asks the user before going on.
NeedsConfirm(level) == level = "dangerous" \/ level = "caution"

\* handleExecuteCommand of the page: the command goes to the Terminal
\* component only while the page holds a terminal session id.
ReachesTerminal == terminalSessionId # Null

\* The Execute button of the k-th detected command.  answer is what the user
\* replies if confirm() is shown; onExecuteCommand tells whether the parent
\* passed the optional onExecuteCommand prop.
\* An executeCommand that says nothing when it has no callback.
NoTargetErrorSilent(goesOn, onExecuteCommand) == errorMessage

\* errorMessage after executeCommand: the else branch of `if (onExecuteCommand)`
\* reports that no terminal is connected.
NoTargetError(goesOn, onExecuteCommand) ==
    IF goesOn /\ ~onExecuteCommand THEN NoTerminalText ELSE errorMessage

executeCommand(k, answer, onExecuteCommand) ==
    /\ panel = "chat"
    /\ aiMounted = "yes"
    /\ LET cmd == detectedCommands[k]
           asked == NeedsConfirm(cmd.safety_level)
           goesOn == ~asked \/ answer
           outcome == [command |-> cmd.command, level |-> cmd.safety_level,
                       prompted |-> asked, confirmed |-> asked /\ answer,
                       target |-> onExecuteCommand,
                       invoked |-> goesOn /\ onExecuteCommand,
                       forwarded |-> goesOn /\ onExecuteCommand
                                       /\ ReachesTerminal]
       IN /\ errorMessage' = NoTargetError(goesOn, onExecuteCommand)
          /\ Ran("executeCommand", NoSocket, outcome, <<>>)
    /\ UNCHANGED <<aiWs, aiSessionId, aiIsConnected, messages, isProcessing,
                   currentAssistantMessage, detectedCommands, aiMounted,
                   aiSocks, turn>>
    /\ UNCHANGED <<termVars, pageVars>>

executeCommandAny ==
    \E k \in 1..Len(detectedCommands), answer \in BOOLEAN,
       onExecuteCommand \in BOOLEAN :
        executeCommand(k, answer, onExecuteCommand)

\* disconnect() of the chat, as a function of the fields it touches.
DisconnectAI(st) ==
    [ws |-> NoSocket,
     socks |-> IF st.ws # NoSocket THEN CloseOn(st.socks, st.ws) ELSE st.socks,
     isConnected |-> FALSE,
     sessionId |-> Null]

\* Unmounting runs the cleanup returned by onMount and then onDestroy; each
\* calls disconnect().
aiUnmount ==
    /\ panel = "chat"
    /\ aiMounted = "yes"
    /\ aiMounted' = "destroyed"
    /\ LET st == DisconnectAI(DisconnectAI(
                     [ws |-> aiWs, socks |-> aiSocks,
                      isConnected |-> aiIsConnected,
                      sessionId |-> aiSessionId]))
       IN /\ aiWs' = st.ws
          /\ aiSocks' = st.socks
          /\ aiIsConnected' = st.isConnected
          /\ aiSessionId' = st.sessionId
    /\ Ran("aiUnmount", NoSocket, NoArg, <<>>)
    /\ UNCHANGED <<messages, isProcessing, currentAssistantMessage,
                   detectedCommands, errorMessage, turn>>
    /\ UNCHANGED <<termVars, pageVars>>

\* The page's toggle button: showAiChat = !showAiChat. Under {#if showAiChat}
\* a hidden chat is shown as a new instance of the component, whose onMount
\* runs connectToAI, and a shown chat is destroyed.
toggleAiChat ==
    \/ connectToAI
    \/ aiUnmount

\* The closing handshake of the chat socket i has started at the server's
\* request.
aiClosing(i) ==
    /\ panel = "chat"
    /\ aiSocks[i].readyState = "OPEN"
    /\ aiSocks' = [aiSocks EXCEPT ![i].readyState = "CLOSING"]
    /\ Ran("closing", i, NoArg, <<>>)
    /\ UNCHANGED <<aiWs, aiSessionId, aiIsConnected, messages, isProcessing,
                   currentAssistantMessage, detectedCommands, errorMessage,
                   aiMounted, turn>>
    /\ UNCHANGED <<termVars, pageVars>>

\* The connection of the chat socket i has failed: ws.onerror and then
\* ws.onclose, in one task.
aiOnError(i) ==
    /\ panel = "chat"
    /\ ~aiSocks[i].closeFired
    /\ aiSocks' = [aiSocks EXCEPT ![i].readyState = "CLOSED",
                                  ![i].closeFired = TRUE]
    /\ IF OwnSocket(i)
       THEN /\ errorMessage' = ConnectionErrorText
            /\ aiIsConnected' = FALSE
            /\ aiWs' = NoSocket
       ELSE UNCHANGED <<errorMessage, aiIsConnected, aiWs>>
    /\ Ran("onerror", i, NoArg, <<>>)
    /\ UNCHANGED <<aiSessionId, messages, isProcessing,
                   currentAssistantMessage, detectedCommands, aiMounted, turn>>
    /\ UNCHANGED <<termVars, pageVars>>

\* ws.onclose of the chat socket i, closed without a failure.
aiOnClose(i) ==
    /\ panel = "chat"
    /\ ~aiSocks[i].closeFired
    /\ aiSocks[i].readyState # "CONNECTING"
    /\ aiSocks' = [aiSocks EXCEPT ![i].readyState = "CLOSED",
                                  ![i].closeFired = TRUE]
    /\ IF OwnSocket(i)
       THEN /\ aiIsConnected' = FALSE
            /\ aiWs' = NoSocket
       ELSE UNCHANGED <<aiIsConnected, aiWs>>
    /\ Ran("onclose", i, NoArg, <<>>)
    /\ UNCHANGED <<aiSessionId, messages, isProcessing,
                   currentAssistantMessage, detectedCommands, errorMessage,
                   aiMounted, turn>>
    /\ UNCHANGED <<termVars, pageVars>>

\* ================================================================== page
(***************************************************************************)
(* The page mounts both components.  They share no variable: the page      *)
(* hands the chat its terminalSessionId, which nothing assigns after its   *)
(* initial null (no code calls handleSessionChange), and its execute       *)
(* callback, which does nothing while terminalSessionId is null.  A        *)
(* behaviour of the page is therefore an interleaving of a behaviour of    *)
(* the Terminal component and one of the chat, neither of which reads or   *)
(* writes what the other does; panel selects which of the two the          *)
(* behaviour follows.                                                      *)
(***************************************************************************)
Next ==
    \/ editForm
    \/ onData
    \/ onResize
    \/ connect
    \/ handleKeyPress
    \/ disconnect
    \/ onDestroy
    \/ \E i \in 1..Len(socks) : wsOnOpen(i)
    \/ wsOnMessageAny
    \/ \E i \in 1..Len(socks) : wsClosing(i)
    \/ \E i \in 1..Len(socks) : wsOnError(i)
    \/ \E i \in 1..Len(socks) : wsOnClose(i)
    \/ toggleAiChat
    \/ \E i \in 1..Len(aiSocks) : aiOnOpen(i)
    \/ \E i \in 1..Len(aiSocks) : handleWSMessage(i)
    \/ sendMessage
    \/ clearChat
    \/ dismissError
    \/ executeCommandAny
    \/ \E i \in 1..Len(aiSocks) : aiClosing(i)
    \/ \E i \in 1..Len(aiSocks) : aiOnError(i)
    \/ \E i \in 1..Len(aiSocks) : aiOnClose(i)

Spec == Init /\ [][Next]_vars

\* The Terminal component on its own: the behaviours of the page that follow
\* the Terminal.
TerminalInit == Init /\ panel = "terminal"

TerminalNext ==
    \/ editForm
    \/ onData
    \/ onResize
    \/ connect
    \/ handleKeyPress
    \/ disconnect
    \/ onDestroy
    \/ \E i \in 1..Len(socks) : wsOnOpen(i)
    \/ wsOnMessageAny
    \/ \E i \in 1..Len(socks) : wsClosing(i)
    \/ \E i \in 1..Len(socks) : wsOnError(i)
    \/ \E i \in 1..Len(socks) : wsOnClose(i)

TerminalSpec == TerminalInit /\ [][TerminalNext]_vars

\* ================================================================ claims
\* The frames the last handler transmitted.
LastFrames == {last.sent[k] : k \in 1..Len(last.sent)}

\* A string that is empty once trimmed: nothing but blanks.
Blank(str) == \A k \in 1..Len(str) : str[k] = " "

\* The fields of the Terminal component that make up its connection.
termConn == <<ws, socks, isConnecting, isConnected, sessionId, statusIndicator>>

\* A message_complete without full_message that ended a turn and appended an
\* assistant entry.
CompletedFromChunks ==
    /\ last.op = "message_complete"
    /\ ~last.arg.full.present
    /\ last.arg.turn.open
    /\ last.arg.appended

\* C1 (as stated): when message_complete carries no full_message, the
\* assistant entry appended has as content the concatenation, in arrival
\* order, of all message_chunk contents received since the sendMessage that
\* started the turn.
C1_EntryIsAllChunks ==
    CompletedFromChunks =>
        messages[Len(messages)].content = last.arg.turn.chunks

\* C1 (amended): when message_complete carries no full_message, the entry
\* appended is an assistant entry whose content is the concatenation, in
\* arrival order, of the message_chunk contents received since the
\* sendMessage that started the turn or, if error messages arrived in the
\* turn, since the last of them: all the chunks of a turn without an error.
C1_EntryIsChunksSinceLastError ==
    CompletedFromChunks =>
        /\ messages[Len(messages)].role = "assistant"
        /\ messages[Len(messages)].content =
               SubSeq(last.arg.turn.chunks, last.arg.turn.lost + 1,
                      Len(last.arg.turn.chunks))

\* C1 witness: a turn of two different chunks, no error, finalized without
\* full_message.
C1_Witness ==
    /\ CompletedFromChunks
    /\ ~last.arg.turn.error
    /\ last.arg.turn.chunks = <<"a", "b">>
    /\ messages[Len(messages)].content = <<"a", "b">>

\* C2: executeCommand on a command of tier dangerous or caution never invokes
\* the execute callback, and so never reaches the terminal, unless the user
\* was asked and granted the confirmation.
C2_NoExecuteWithoutConfirmation ==
    /\ last.op = "executeCommand"
    /\ last.arg.level \in {"dangerous", "caution"}
    /\ (last.arg.invoked \/ last.arg.forwarded)
    => last.arg.prompted /\ last.arg.confirmed

\* C2 witness: a caution command whose confirmation the user declined, with a
\* callback in place, was not executed.
C2_Witness ==
    /\ last.op = "executeCommand"
    /\ last.arg.level = "caution"
    /\ last.arg.target
    /\ last.arg.prompted /\ ~last.arg.confirmed
    /\ ~last.arg.invoked

\* C3 (as stated): executeCommand on a command of tier safe forwards the
\* command to the terminal without a confirmation prompt whenever the chat
\* was given a target to execute on.
C3_SafeForwardsUnprompted ==
    /\ last.op = "executeCommand"
    /\ last.arg.level = "safe"
    /\ last.arg.target
    => last.arg.forwarded /\ ~last.arg.prompted

\* C4: onData and onResize transmit nothing while the Terminal session is
\* not connected, and an input or resize frame is only ever transmitted
\* while it is connected.
C4_UserFramesOnlyWhenConnected ==
    /\ last.op \in {"input", "resize"} /\ ~isConnected => last.sent = <<>>
    /\ \A f \in LastFrames :
          f.frame.type \in {"input", "resize"} =>
              /\ isConnected
              /\ last.op = f.frame.type

\* C4 witness: the handshake is under way on an open socket, the session is
\* not yet connected, and a keystroke was dropped.
C4_Witness ==
    /\ last.op = "input"
    /\ ~isConnected
    /\ ws # NoSocket
    /\ socks[ws].readyState = "OPEN"
    /\ last.sent = <<>>

\* C5: connect() with a host or a username that is empty after trimming
\* opens no channel and leaves the connection state as it was.
C5_BlankFormConnectIsRejected ==
    [][last'.op = "connect" /\ (Blank(host) \/ Blank(username))
          => UNCHANGED termConn]_vars

\* C5 witness: connect() was called with a host but a blank username, and
\* there is still no channel.
C5_Witness ==
    /\ last.op = "connect"
    /\ ~Blank(host)
    /\ Blank(username)
    /\ username # <<>>
    /\ socks = <<>>
    /\ ws = NoSocket
    /\ ~isConnecting
    /\ statusIndicator = "disconnected"

\* The sockets of a component that were opened and are not closed or closing.
Live(ss) == {i \in 1..Len(ss) : ss[i].readyState \in {"CONNECTING", "OPEN"}}

\* C6 (as stated): in both sessions the remote session id is set only while
\* the session is connected, so it is cleared on every transition out of
\* connected.
C6_SessionIdOnlyWhenConnected ==
    /\ sessionId # Null => isConnected
    /\ aiSessionId # Null => aiIsConnected

\* C7 (as stated): a session never has more than one channel that was opened
\* and is not yet closed.
C7_AtMostOneLiveChannel ==
    /\ Cardinality(Live(socks)) <= 1
    /\ Cardinality(Live(aiSocks)) <= 1

\* C8 (as stated): a connect() issued while the session is connecting or
\* connected is a no-op: it opens no channel and changes nothing of the
\* connection.
C8_ConnectWhileBusyIsNoOp ==
    [][last'.op = "connect" /\ (isConnecting \/ isConnected)
          => UNCHANGED termConn]_vars

\* The session flag of the channel a frame went out on.
ConnectedOn(chan) == IF chan = "terminal" THEN isConnected ELSE aiIsConnected

\* C9 (as stated): every frame other than the connect handshake (input,
\* resize, message, pong) is transmitted only while its session is connected.
C9_FramesOnlyWhenConnected ==
    \A f \in LastFrames :
        f.frame.type # "connect" => ConnectedOn(f.chan)

\* C9 (amended): input, resize and message frames are transmitted only while
\* their session is connected; a pong is transmitted only in reply to a
\* keepalive, connected or not.
C9_DataFramesOnlyWhenConnected ==
    \A f \in LastFrames :
        /\ f.frame.type \in {"connect", "input", "resize", "message", "pong"}
        /\ f.frame.type \in {"input", "resize", "message"} => ConnectedOn(f.chan)
        /\ f.frame.type = "pong" => last.op = "keepalive"

\* C9 witness: a chat message went out on the channel of a connected session.
C9_Witness ==
    /\ last.op = "sendMessage"
    /\ aiIsConnected
    /\ \E f \in LastFrames :
          /\ f.frame.type = "message"
          /\ f.chan = "chat"
          /\ f.sock = aiWs

\* C10 (as stated): a keepalive received on a channel has exactly one pong
\* transmitted on that channel and changes nothing else.
C10_KeepaliveAnsweredOnItsChannel ==
    [][last'.op = "keepalive"
          => /\ last'.sent = << [chan |-> panel, sock |-> last'.sock,
                                 frame |-> [type |-> "pong"]] >>
             /\ UNCHANGED <<termVars, aiVars, pageVars>>]_vars

\* The three fields clearChat() is about.
ChatLists == [messages |-> messages, detectedCommands |-> detectedCommands,
              errorMessage |-> errorMessage]

\* C11: clearChat() leaves messages empty, detectedCommands empty and
\* errorMessage absent whatever the state before, and a second clearChat()
\* right after the first changes nothing.
C11_ClearEmptiesAndIsIdempotent ==
    [][last'.op = "clearChat"
          => /\ messages' = <<>>
             /\ detectedCommands' = <<>>
             /\ errorMessage' = Null
             /\ Cleared(Cleared(ChatLists)) = Cleared(ChatLists)
             /\ last.op = "clearChat" => UNCHANGED aiVars]_vars

\* C11 witness: a clear of a chat that had entries, a detected command and an
\* error banner.
C11_Witness ==
    /\ last.op = "clearChat"
    /\ last.arg.entries = 2
    /\ last.arg.commands = 1
    /\ last.arg.hadError
    /\ messages = <<>> /\ detectedCommands = <<>> /\ errorMessage = Null

\* C12 (as stated): every message_complete appends exactly one assistant
\* entry (content full_message if present, else the streaming buffer), resets
\* the streaming buffer and clears the processing flag.
C12_CompleteAlwaysFinalizes ==
    last.op = "message_complete" =>
        /\ last.arg.appended
        /\ messages[Len(messages)].role = "assistant"
        /\ last.arg.full.present =>
               messages[Len(messages)].content = last.arg.full.text
        /\ currentAssistantMessage = <<>>
        /\ ~isProcessing

\* C13: a server error sets errorMessage to its text, clears the processing
\* flag and empties the streaming buffer without touching messages; and the
\* chunks received before the error are no part of the entry a later
\* message_complete makes of the buffer.
C13_ErrorDiscardsPartialText ==
    [][/\ last'.op = "error" /\ panel = "chat"
          => /\ errorMessage' = last'.arg.text
             /\ ~isProcessing'
             /\ currentAssistantMessage' = <<>>
             /\ messages' = messages
       /\ last'.op = "message_complete" /\ turn.open
             /\ last'.arg.full.text = <<>> /\ last'.arg.appended
          => messages'[Len(messages')].content =
                 SubSeq(turn.chunks, turn.lost + 1, Len(turn.chunks))]_vars

\* C13 witness: a chunk, an error, another chunk and a message_complete
\* without full_message: the entry holds the second chunk only.
C13_Witness ==
    /\ last.op = "message_complete"
    /\ last.arg.turn.error
    /\ last.arg.turn.lost = 1
    /\ last.arg.turn.chunks = <<"a", "b">>
    /\ ~last.arg.full.present
    /\ messages[Len(messages)] = [role |-> "assistant", content |-> <<"b">>]

\* C14: sendMessage() with a text that is empty once trimmed, or while the
\* chat is not connected, or while a reply is being processed, does nothing:
\* no entry is appended, no frame is transmitted, and the streaming buffer,
\* the detected commands and the processing flag stay as they are.
C14_RejectedSendIsNoOp ==
    [][last'.op = "sendMessage"
          /\ (Blank(last'.arg.text) \/ ~aiIsConnected \/ isProcessing)
          => /\ last'.sent = <<>>
             /\ UNCHANGED <<messages, currentAssistantMessage,
                            detectedCommands, isProcessing>>]_vars

\* C14 witness: a text was submitted on an open channel of a connected chat
\* while a reply was streaming, and nothing happened.
C14_Witness ==
    /\ last.op = "sendMessage"
    /\ ~Blank(last.arg.text)
    /\ ~last.arg.accepted
    /\ aiIsConnected
    /\ isProcessing
    /\ currentAssistantMessage # <<>>
    /\ aiWs # NoSocket /\ aiSocks[aiWs].readyState = "OPEN"
    /\ last.sent = <<>>

\* The frame sendMessage() transmits for a text.
MessageFrame(text) ==
    [type |-> "message", content |-> text, include_context |-> TRUE]

\* C15 (as stated): every sendMessage() with a non-empty text, in a connected
\* chat that is not processing, appends exactly one user entry, transmits
\* exactly one message frame on the channel and sets the processing flag.
C15_AcceptedSendTransmits ==
    [][last'.op = "sendMessage"
          /\ ~Blank(last'.arg.text) /\ aiIsConnected /\ ~isProcessing
          => /\ messages' = Append(messages, [role |-> "user",
                                              content |-> last'.arg.text])
             /\ Len(last'.sent) = 1
             /\ last'.sent[1].chan = "chat"
             /\ last'.sent[1].frame = MessageFrame(last'.arg.text)
             /\ isProcessing']_vars

\* C16 (as stated): whenever sendMessage() accepts a new user message,
\* detectedCommands and the streaming buffer are empty right afterwards, so
\* that no command of an earlier turn is on offer beside the new entry.
C16_NewTurnStartsEmpty ==
    last.op = "sendMessage" /\ last.arg.accepted =>
        /\ detectedCommands = <<>>
        /\ currentAssistantMessage = <<>>

\* The messages of the server that are no command_detected.
OtherServerMessages == {"connected", "message_chunk", "message_complete",
                        "error", "keepalive", "pong", "notice"}

\* C17: a command_detected appends exactly its {command, safety_level} at
\* the end of detectedCommands and changes neither messages, the streaming
\* buffer nor the processing flag; no other message of the server, the
\* message_complete of the turn included, changes detectedCommands, so the
\* detections of a turn are all there, in arrival order, after it.
C17_DetectionsAppendAndStay ==
    [][/\ last'.op = "command_detected"
          => /\ detectedCommands' =
                    Append(detectedCommands,
                           [command |-> last'.arg.command,
                            safety_level |-> last'.arg.level])
             /\ UNCHANGED <<messages, currentAssistantMessage, isProcessing>>
       /\ last'.op \in OtherServerMessages /\ panel = "chat"
          => UNCHANGED detectedCommands]_vars

\* C17 witness: a second, different detection of a turn arrived after the
\* first and stands behind it.
C17_Witness ==
    /\ last.op = "command_detected"
    /\ last.arg.level = "safe"
    /\ isProcessing
    /\ Len(detectedCommands) = 2
    /\ detectedCommands[1].safety_level = "dangerous"
    /\ detectedCommands[2].safety_level = "safe"

\* C17, the end of such a turn: both detections are still there after its
\* message_complete.
C17_AfterComplete ==
    /\ last.op = "message_complete"
    /\ last.arg.turn.open
    /\ last.arg.appended
    /\ Len(detectedCommands) = 2
    /\ detectedCommands[1].safety_level # detectedCommands[2].safety_level

\* C18 (as stated): on a server error message the Terminal session is in
\* error, neither connecting nor connected, and holds no session id.
C18_TerminalErrorResets ==
    last.op = "error" /\ panel = "terminal" =>
        /\ statusIndicator = "error"
        /\ ~isConnecting
        /\ ~isConnected
        /\ sessionId = Null

\* C19 (as stated): after disconnect(), by the user or on unmount, the
\* session is neither connected nor connecting and holds neither a session
\* id nor a socket.
C19_DisconnectResets ==
    /\ last.op \in {"disconnect", "onDestroy"} =>
          /\ ws = NoSocket
          /\ ~isConnected
          /\ ~isConnecting
          /\ sessionId = Null
    /\ last.op = "aiUnmount" =>
          /\ aiWs = NoSocket
          /\ ~aiIsConnected
          /\ aiSessionId = Null

\* What the transport and the server do to a session, as opposed to its user.
ChannelEvents == {"onopen", "closing", "onerror", "onclose", "connected",
                  "output", "error", "reconnected", "keepalive", "pong",
                  "notice", "message_chunk", "message_complete",
                  "command_detected"}

\* C20: a socket is created by connect() of the Terminal and by the mount of
\* the chat only; no close, transport error or server message creates one,
\* and the only frames such an event has transmitted are the connect
\* handshake of onopen and the pong of keepalive.
C20_NoAutomaticReconnect ==
    [][/\ Len(socks') > Len(socks) => last'.op = "connect"
       /\ Len(aiSocks') > Len(aiSocks) => last'.op = "connectToAI"
       /\ last'.op \in ChannelEvents
          => /\ Len(socks') = Len(socks)
             /\ Len(aiSocks') = Len(aiSocks)
             /\ \A k \in 1..Len(last'.sent) :
                   \/ last'.sent[k].frame.type = "connect" /\ last'.op = "onopen"
                   \/ last'.sent[k].frame.type = "pong" /\ last'.op = "keepalive"]_vars

\* C20 witness: a connected Terminal session lost its only socket and no other
\* was opened.
C20_Witness ==
    /\ last.op = "onclose"
    /\ panel = "terminal"
    /\ sessionId # Null
    /\ Len(socks) = 1
    /\ socks[1].readyState = "CLOSED"
    /\ ws = NoSocket
    /\ ~isConnecting

\* The socket record of a transmitted frame.
SocketOf(f) == IF f.chan = "terminal" THEN socks[f.sock] ELSE aiSocks[f.sock]

\* The handler a frame of each type is transmitted by.
SenderOf(f) ==
    CASE f.frame.type = "connect" -> {"onopen"}
      [] f.frame.type = "pong"    -> {"keepalive"}
      [] f.frame.type = "message" -> {"sendMessage"}
      [] OTHER                    -> {f.frame.type}

\* C21: once disconnect() has called close() on a channel, no frame is
\* transmitted on that channel again, and what the user sends afterwards is
\* dropped, not queued: every transmitted frame is on an open socket on which
\* close() was never called, it is transmitted by the handler that builds it,
\* and a message frame carries the text of that very sendMessage call.
C21_NoFrameAfterClose ==
    \A f \in LastFrames :
        /\ ~SocketOf(f).closeCalled
        /\ SocketOf(f).readyState = "OPEN"
        /\ last.op \in SenderOf(f)
        /\ f.frame.type = "message" => f.frame.content = last.arg.text

\* The user typed in the terminal after disconnect() closed the channel and
\* connected again: the later channel has opened and carried the handshake
\* alone.
C21_Witness ==
    /\ last.op = "onopen"
    /\ Len(last.sent) = 1
    /\ last.sent[1].frame.type = "connect"
    /\ \E i \in 1..Len(socks) : socks[i].closeCalled /\ i # ws
    /\ ws # NoSocket
    /\ socks[ws].readyState = "OPEN"
    /\ ~socks[ws].closeCalled

\* TerminalSession is Connecting.
Connecting == isConnecting /\ statusIndicator = "connecting"

\* The steps the claim excepts: the three inbound messages, a transport
\* error, a close event and what the user does.
EndsConnecting ==
    {"connected", "reconnected", "error", "onerror", "onclose",
     "connect", "keypress", "disconnect", "onDestroy", "editForm",
     "input", "resize"}

\* C22: there is no connect timeout: a Connecting TerminalSession stays
\* Connecting through every step that is not a connected, reconnected or
\* error message, a transport error, a close event or a user action.
C22_NoConnectTimeout ==
    [][Connecting /\ ~Connecting' => last'.op \in EndsConnecting]_vars

\* The session is still Connecting after its socket opened and the server
\* sent a keepalive.
C22_Witness ==
    /\ Connecting
    /\ last.op = "keepalive"
    /\ ws # NoSocket
    /\ socks[ws].readyState = "OPEN"

\* C23: when executeCommand gets as far as forwarding (no confirmation was
\* needed, or the user confirmed) and no terminal target is registered, the
\* error banner says so and nothing is forwarded.
C23_NoTargetIsReported ==
    /\ last.op = "executeCommand"
    /\ ~last.arg.target
    /\ ~last.arg.prompted \/ last.arg.confirmed
    => /\ errorMessage = NoTerminalText
       /\ ~last.arg.invoked
       /\ ~last.arg.forwarded
       /\ last.sent = <<>>

\* A confirmed command found no terminal target and the banner shows it.
C23_Witness ==
    /\ last.op = "executeCommand"
    /\ ~last.arg.target
    /\ last.arg.confirmed
    /\ last.arg.command \in CommandTexts
    /\ errorMessage = NoTerminalText
    /\ ~last.arg.invoked

\* What the user does to retry: connect() from the button or the Enter key.
UserRetry == {"connect", "keypress"}

\* C24: after a transport error the session is not connected, and it is
\* still not connected after the next step unless that step is the user
\* retrying.
C24_ErrorLeavesDisconnected ==
    [][/\ last'.op = "onerror" => ~isConnected'
       /\ last.op = "onerror" /\ last'.op \notin UserRetry => ~isConnected']_vars

\* C25: messageLog is append-only: every step of a session other than
\* clear() leaves messages as it is or adds one entry at its end, the entries
\* before it unchanged and in place. Showing the chat again makes a new
\* session, whose log is another one and starts empty.
C25_LogIsAppendOnly ==
    [][\/ last'.op \in {"clearChat", "connectToAI"}
       \/ messages' = messages
       \/ /\ Len(messages') = Len(messages) + 1
          /\ SubSeq(messages', 1, Len(messages)) = messages]_vars

\* The assistant's answer was appended behind the user's entry.
C25_Witness ==
    /\ last.op = "message_complete"
    /\ last.arg.appended
    /\ Len(messages) = 2
    /\ messages[1].role = "user"
    /\ messages[2].role = "assistant"

\* C26: clear() leaves the channel open and the connection state, the remote
\* session id, the channel reference, the processing flag and the streaming
\* buffer as they were.
C26_ClearKeepsConnection ==
    [][last'.op = "clearChat"
       => UNCHANGED <<aiWs, aiSocks, aiIsConnected, aiSessionId, isProcessing,
                      currentAssistantMessage>>]_vars

\* The log was cleared in the middle of a turn on a connected, open channel.
C26_Witness ==
    /\ last.op = "clearChat"
    /\ last.arg.entries > 0
    /\ aiIsConnected
    /\ aiSessionId # Null
    /\ isProcessing
    /\ currentAssistantMessage # <<>>
    /\ aiWs # NoSocket
    /\ aiSocks[aiWs].readyState = "OPEN"

\* C27: TerminalSession moves only along Idle->Connecting,
\* Connecting->Connected, Connecting->Error, Error->Idle and
\* Connected->Closed; in particular no inbound message takes a session that
\* is in Error, Idle or Closed (status 'error' or 'disconnected') to
\* Connected.
C27_NoMessageRevivesSession ==
    [][/\ last'.op \in TermMessageTypes
       /\ statusIndicator \in {"error", "disconnected"}
       => statusIndicator' # "connected" /\ ~(~isConnected /\ isConnected')]_vars

\* C28: after a connected or a reconnected message the session holds the
\* message's session_id, is connected and is no longer connecting.
C28_HandshakeReplyConnects ==
    last.op \in {"connected", "reconnected"} /\ panel = "terminal"
    => /\ sessionId = last.arg.session_id
       /\ isConnected
       /\ ~isConnecting
       /\ statusIndicator = "connected"

\* C29: every channel that opens transmits the connect handshake, on that
\* channel, when it opens.
C29_OpenSendsHandshake ==
    last.op = "onopen"
    => \E f \in LastFrames :
           /\ f.sock = last.sock
           /\ f.frame.type = "connect"
           /\ f.chan = panel

\* C30: an inbound message of a type neither handler has a case for is
\* ignored on both channels: no state of the terminal, the chat or the page
\* changes and no frame is transmitted.
C30_UnknownTypeIsIgnored ==
    [][last'.op = "notice"
       => UNCHANGED <<termVars, aiVars, pageVars>> /\ last'.sent = <<>>]_vars

\* A message of an unknown type arrived on the chat channel in the middle of
\* a turn.
C30_Witness ==
    /\ last.op = "notice"
    /\ last.sent = <<>>
    /\ panel = "chat"
    /\ aiIsConnected
    /\ isProcessing
    /\ currentAssistantMessage # <<>>

\* C31: the chat's connect handshake carries the terminal session id the
\* page holds when the chat channel opens, null when it holds none, and a
\* connect frame is transmitted at no other moment than the opening of its
\* channel, so a later id is never sent on a channel that is already open.
C31_HandshakeCarriesPageSessionId ==
    \A f \in LastFrames :
        f.chan = "chat" /\ f.frame.type = "connect"
        => /\ f.frame.terminal_session_id = terminalSessionId
           /\ last.op = "onopen"
           /\ f.sock = last.sock

\* The chat channel opened and its handshake carried a null terminal session
\* id, the page holding none.
C31_Witness ==
    /\ last.op = "onopen"
    /\ panel = "chat"
    /\ terminalSessionId = Null
    /\ last.sent = << [chan |-> "chat", sock |-> last.sock,
                       frame |-> [type |-> "connect",
                                  terminal_session_id |-> Null]] >>

\* The events that end a turn of the chat: the server's message_complete or
\* error, and the closing of the channel, with or without a failure.
TurnEnds == {"message_complete", "error", "onclose", "onerror"}

\* C32: once the turn has ended, by a message_complete, an error or the
\* channel closing, the processing flag is cleared.
C32_TurnEndClearsProcessing ==
    panel = "chat" /\ last.op \in TurnEnds => ~isProcessing

\* C33: the late close event of a channel that disconnect() closed, delivered
\* after a new connect(), leaves the new channel reference and the new
\* attempt's isConnecting as they are.
C33_LateCloseLeavesNewAttempt ==
    [][/\ last'.op = "onclose"
       /\ socks[last'.sock].closeCalled
       /\ ws # NoSocket
       /\ ws # last'.sock
       => ws' = ws /\ isConnecting' = isConnecting]_vars

\* C34: a connected TerminalSession holds a channel reference.
C34_ConnectedHoldsChannel ==
    isConnected => ws # NoSocket

\* C35: isConnecting and isConnected are never both true.
C35_ConnectingExcludesConnected ==
    ~(isConnecting /\ isConnected)

\* C36: every input or resize frame is transmitted on a channel that has
\* itself received a connected or reconnected message before.
C36_UserFramesOnAcknowledgedChannel ==
    \A f \in LastFrames :
        f.chan = "terminal" /\ f.frame.type \in {"input", "resize"}
        => socks[f.sock].acknowledged

\* The last handler transmitted a message frame.
SentMessageFrame(l) ==
    \E k \in 1..Len(l.sent) : l.sent[k].frame.type = "message"

\* C37: a session of the chat never has two user messages in flight: a
\* message frame is transmitted only while isProcessing is false and raises
\* it, and within the session only a message_complete or an error event
\* lowers it again. Showing the chat again makes a new session, whose flag
\* is another one and starts false.
C37_OneMessageInFlight ==
    [][/\ SentMessageFrame(last') => ~isProcessing /\ isProcessing'
       /\ isProcessing /\ ~isProcessing' /\ last'.op # "connectToAI"
          => last'.op \in {"message_complete", "error"}]_vars

\* A second message frame was transmitted, the turn of the first having
\* ended.
C37_Witness ==
    /\ last.op = "sendMessage"
    /\ SentMessageFrame(last)
    /\ isProcessing
    /\ Len(messages) = 2
    /\ messages[1].role = "user"
    /\ messages[2].role = "user"

\* C38: an executeCommand that passes the confirmation policy, the page's
\* callback being registered, ends with the command forwarded to the
\* terminal or with the error banner saying that it was not.
C38_CommandIsForwardedOrReported ==
    /\ last.op = "executeCommand"
    /\ last.arg.target
    /\ ~last.arg.prompted \/ last.arg.confirmed
    => last.arg.forwarded \/ errorMessage = NoTerminalText

\* C39: while the status indicator shows 'connecting' a connection attempt
\* is in flight.
C39_ConnectingStatusMeansAttempt ==
    statusIndicator = "connecting" => isConnecting

\* C40: while the status indicator shows 'connected' the session is
\* connected.
C40_ConnectedStatusMeansConnected ==
    statusIndicator = "connected" => isConnected

\* The indicator shows 'connected' on a second channel, after the first was
\* disconnected and has closed.
C40_Witness ==
    /\ statusIndicator = "connected"
    /\ isConnected
    /\ last.op = "connected"
    /\ last.sock = 2
    /\ ws = 2
    /\ socks[1].closeCalled
    /\ socks[1].closeFired

====
